---- MODULE Spec2Model ----
(***************************************************************************)
(* Model of scripts/recorder.py (ros-video-recorder).                      *)
(*                                                                         *)
(* VideoFrames  : one timestamped frame list per subscribed image topic,   *)
(*                fed by callback_image and sampled by get_latest.         *)
(* VideoRecorder: record_spin / start_record run in the main thread, the   *)
(*                ~start and ~stop service callbacks run in service        *)
(*                threads; rospy shutdown and SIGINT arrive at any time.   *)
(*                                                                         *)
(* Time is counted in units of Interval/3 (Interval = 1/fps).  An image is *)
(* a single-pixel picture, so that cv2.resize to w x h gives the uniform   *)
(* w x h picture of that pixel; its colour is a number >= 1, 0 is black.   *)
(***************************************************************************)
EXTENDS Integers, Sequences, FiniteSets, TLC

\* ---------------------------------------------------------------- bounds
NumSources == 2      \* configured ~source<i> parameters
MaxStamp == 2        \* last clock value and query time of SpecFrames
MaxMsgs == 3         \* image messages delivered to the one buffer of SpecFrames
MaxComposeStamp == 1 \* last clock value and sample time of SpecCompose
MaxComposeMsgs == 2  \* image messages delivered in SpecCompose
MaxRaceStamp == 1    \* last clock value and query time of SpecRace
MaxRaceMsgs == 2     \* image messages delivered in SpecRace
OutputWidth == 2     \* ~output_width, in pixels
OutputHeight == 2    \* ~output_height, in pixels
MaxTime == 11        \* last clock value of the recorder specification
MaxWork == 2         \* longest compose-and-write time of one tick, in time units
MaxRateSleep == 1    \* longest r.sleep() of record_spin's waiting loop, in time units
MaxCalls == 2        \* ~start / ~stop requests served
MaxInterrupts == 1   \* SIGINTs delivered to the main thread
RecursionLimit == 2  \* nested record_spin frames the interpreter allows

Interval == 3        \* self.interval = 1.0 / self.fps, in time units
ShortSleep == 1      \* rospy.sleep(0.01), in time units

None == -1           \* Python's None as returned by get_latest
Unset == -1          \* the -1 of start_time / end_time

Sources == 1..NumSources
Pixels == (0..(OutputWidth - 1)) \X (0..(OutputHeight - 1))

VARIABLES
    frames,          \* frames[s] = VideoFrames.frames of source s: <<time, image>>
    frame_wrappers,  \* VideoRecorder.frame_wrappers: target_x, target_y, target_w, target_h
    now,             \* time.time()
    canvas,          \* the canvas composed by the last tick
    hist,            \* history: hist[s] = every frame ever appended to source s
    msgs,            \* history: image messages delivered so far
    last,            \* history: the last VideoFrames / compose operation, its result,
                     \*          and the get_latest call right before it, if any
    qmax,            \* history: qmax[s] = greatest at_time source s was queried with
    mono,            \* history: mono[s] = the queries of source s came at non-decreasing times
    gl,              \* the get_latest call in progress on source 1, step by step
    cb,              \* the callback_image call in progress on source 1, step by step
    output_path,     \* self.output_path is a non-empty string
    output_file,     \* the attribute self.output_file exists
    video_writer,    \* self.video_writer: "unset", "None", or a writer "open" / "released"
    record_flag,     \* self.record_flag
    start_time,      \* self.start_time
    end_time,        \* self.end_time
    curr_time,       \* curr_time of start_record
    shutdown,        \* rospy.is_shutdown()
    pc,              \* where the main thread stands
    busy,            \* time units left of the sleep (or work) the main thread is in
    depth,           \* record_spin frames on the main thread's stack
    exit,            \* how the process ended
    opens,           \* history: VideoWriters constructed
    releases,        \* history: VideoWriters released
    canvases,        \* history: canvases composed by the current start_record call
    cycles,          \* history: start_record calls whose loop body ran
    arms,            \* history: times record_flag was set (initial_start included)
    calls,           \* history: service requests served
    srv,             \* history: outcome of the last service request
    interrupts,      \* history: SIGINTs delivered
    clean,           \* history: the current recording saw no overrun, restart or interruption
    hit,             \* history: shutdown or SIGINT came while the tick loop recorded to an open sink
    stopped,         \* history: the ~stop accepted while the sink now open was open
    work_end         \* history: time.time() when the current tick's work (lines 112-130) ended

tvars == <<gl, cb>>

fvars == <<frames, frame_wrappers, now, canvas, hist, msgs, last, qmax, mono, tvars>>

rvars == <<output_path, output_file, video_writer, record_flag, start_time, end_time,
           curr_time, shutdown, pc, busy, depth, exit>>

ovars == <<stopped, work_end>>

hvars == <<opens, releases, canvases, cycles, arms, calls, srv, interrupts, clean, hit, ovars>>

\* no ~stop has been accepted since the sink was opened
NoStop == [on |-> FALSE, at |-> Unset, inloop |-> FALSE, resumed |-> FALSE]

vars == <<fvars, rvars, hvars>>

\* no get_latest / callback_image call is in progress
NoQuery == [pc |-> "idle", t |-> 0, rm |-> FALSE, n |-> 0, f |-> None, new |-> <<>>]
NoCallback == [pc |-> "idle", ref |-> "current"]

NoOp == [op |-> "none", src |-> 0, t |-> 0, rm |-> FALSE, ret |-> None,
         pget |-> FALSE, pt |-> 0, prm |-> FALSE, pret |-> None]

\* ------------------------------------------------------------ VideoFrames

\* fs = [x for x in self.frames if x[0] <= at_time]
fs(frs, at_time) == SelectSeq(frs, LAMBDA x : x[1] <= at_time)

\* a get_latest that returns the oldest frame at or before at_time (fs[0])
get_latest_ret_oldest(frs, at_time) ==
    LET f == fs(frs, at_time)
    IN  IF Len(f) = 0 THEN None ELSE f[1][2]

\* the value get_latest returns: None, or the image of fs[-1]
get_latest_ret(frs, at_time) ==
    LET f == fs(frs, at_time)
    IN  IF Len(f) = 0 THEN None ELSE f[Len(f)][2]

\* a trim that also drops the frame it returns (self.frames[len(fs):])
get_latest_frames_drop(frs, at_time, remove_older) ==
    LET f == fs(frs, at_time)
    IN  IF Len(f) = 0 THEN frs
        ELSE IF remove_older THEN SubSeq(frs, Len(f) + 1, Len(frs))
        ELSE frs

\* a trim that keeps one frame too many (self.frames[len(fs) - 2:], clamped)
get_latest_frames_keep2(frs, at_time, remove_older) ==
    LET f == fs(frs, at_time)
    IN  IF Len(f) = 0 THEN frs
        ELSE IF remove_older
             THEN SubSeq(frs, IF Len(f) > 1 THEN Len(f) - 1 ELSE 1, Len(frs))
        ELSE frs

\* self.frames after get_latest: self.frames[len(fs) - 1:] when remove_older
get_latest_frames(frs, at_time, remove_older) ==
    LET f == fs(frs, at_time)
    IN  IF Len(f) = 0 THEN frs
        ELSE IF remove_older THEN SubSeq(frs, Len(f), Len(frs))
        ELSE frs

\* callback_image: a message that converts is appended with the wall clock,
\* one that raises CvBridgeError is logged and dropped
callback_image(s, ok) ==
    /\ msgs' = msgs + 1
    /\ IF ok
       THEN /\ frames' = [frames EXCEPT ![s] = Append(@, <<now, msgs + 1>>)]
            /\ hist' = [hist EXCEPT ![s] = Append(@, <<now, msgs + 1>>)]
            /\ last' = [NoOp EXCEPT !.op = "append", !.src = s]
       ELSE UNCHANGED <<frames, hist, last>>
    /\ UNCHANGED <<frame_wrappers, now, canvas, qmax, mono, tvars>>
    /\ UNCHANGED <<rvars, hvars>>

\* one call of get_latest(at_time, remove_older) on source s
get_latest(s, at_time, remove_older) ==
    /\ frames' = [frames EXCEPT ![s] = get_latest_frames(@, at_time, remove_older)]
    /\ last' = [op |-> "get", src |-> s, t |-> at_time, rm |-> remove_older,
                ret |-> get_latest_ret(frames[s], at_time),
                pget |-> (last.op = "get" /\ last.src = s),
                pt |-> last.t, prm |-> last.rm, pret |-> last.ret]
    /\ mono' = [mono EXCEPT ![s] = @ /\ at_time >= qmax[s]]
    /\ qmax' = [qmax EXCEPT ![s] = IF at_time > @ THEN at_time ELSE @]
    /\ UNCHANGED <<frame_wrappers, now, canvas, hist, msgs, tvars>>
    /\ UNCHANGED <<rvars, hvars>>

\* the wall clock advances between two callbacks
Tick(bound) ==
    /\ now < bound
    /\ now' = now + 1
    /\ UNCHANGED <<frames, frame_wrappers, canvas, hist, msgs, last, qmax, mono, tvars>>
    /\ UNCHANGED <<rvars, hvars>>

\* ------------------------------------------------- compose (start_record)

\* the target rectangles a source can be configured with: the halves of the
\* canvas, and one that reaches beyond its right edge
LeftHalf == [target_x |-> 0, target_y |-> 0,
             target_w |-> OutputWidth \div 2, target_h |-> OutputHeight]
RightHalf == [target_x |-> OutputWidth \div 2, target_y |-> 0,
              target_w |-> OutputWidth - (OutputWidth \div 2), target_h |-> OutputHeight]
TopHalf == [target_x |-> 0, target_y |-> 0,
            target_w |-> OutputWidth, target_h |-> OutputHeight \div 2]
Overflow == [target_x |-> OutputWidth \div 2, target_y |-> 0,
             target_w |-> OutputWidth, target_h |-> OutputHeight]
Regions == {LeftHalf, RightHalf, TopHalf, Overflow}

Min(a, b) == IF a <= b THEN a ELSE b

\* length of the slice [lo : lo + n] of an axis of `size` elements (lo >= 0)
SliceLen(lo, n, size) == Min(lo + n, size) - Min(lo, size)

\* canvas[y:y+h, x:x+w] = resized is accepted by numpy when the slice has the
\* shape of resized, or resized has one row/column that broadcasts along it
Assignable(w) ==
    /\ \/ SliceLen(w.target_x, w.target_w, OutputWidth) = w.target_w
       \/ w.target_w = 1
    /\ \/ SliceLen(w.target_y, w.target_h, OutputHeight) = w.target_h
       \/ w.target_h = 1

\* the pixels of canvas[y:y+h, x:x+w]
InSlice(p, w) ==
    /\ w.target_x <= p[1] /\ p[1] < w.target_x + w.target_w
    /\ w.target_y <= p[2] /\ p[2] < w.target_y + w.target_h

\* cv2.resize(f, (target_w, target_h)) of a single-pixel image f: the uniform
\* target_w x target_h picture of its colour
resize(f, tw, th) == [q \in (0..(tw - 1)) \X (0..(th - 1)) |-> f]

\* np.zeros((output_height, output_width, 3))
zeros == [p \in Pixels |-> 0]

\* an assignment that forgets the slice and fills the whole canvas
paint_all(cv, w, resized) == [p \in Pixels |-> resized[<<0, 0>>]]

\* canvas[...] = resized
paint(cv, w, resized) ==
    [p \in Pixels |->
        IF InSlice(p, w)
        THEN resized[<<p[1] - w.target_x, p[2] - w.target_y>>]
        ELSE cv[p]]

\* the loop over self.frame_wrappers from wrapper i on, on canvas cv and
\* buffers frs, at sample time t: the canvas, the buffers as get_latest left
\* them, and whether the slice assignment raised
RECURSIVE compose_from(_, _, _, _, _)
compose_from(i, cv, frs, wrappers, t) ==
    IF i > Len(wrappers) THEN [err |-> FALSE, cv |-> cv, frs |-> frs]
    ELSE LET f == get_latest_ret(frs[i], t)
             trimmed == [frs EXCEPT ![i] = get_latest_frames(@, t, TRUE)]
             w == wrappers[i]
         IN  IF f = None THEN compose_from(i + 1, cv, frs, wrappers, t)
             ELSE IF ~Assignable(w) THEN [err |-> TRUE, cv |-> cv, frs |-> trimmed]
             ELSE compose_from(i + 1, paint(cv, w, resize(f, w.target_w, w.target_h)),
                               trimmed, wrappers, t)

compose(frs, wrappers, t) == compose_from(1, zeros, frs, wrappers, t)

\* one pass of lines 112-120 at sample time t
ComposePass(t) ==
    LET c == compose(frames, frame_wrappers, t)
    IN  /\ frames' = c.frs
        /\ canvas' = IF c.err THEN canvas ELSE c.cv
        /\ last' = [NoOp EXCEPT !.op = IF c.err THEN "compose_error" ELSE "compose",
                                !.t = t]
        /\ mono' = [s \in Sources |-> mono[s] /\ t >= qmax[s]]
        /\ qmax' = [s \in Sources |-> IF t > qmax[s] THEN t ELSE qmax[s]]
        /\ UNCHANGED <<frame_wrappers, now, hist, msgs, tvars>>

\* the compose pass on its own, outside a recording
ComposeAt(t) == ComposePass(t) /\ UNCHANGED <<rvars, hvars>>

\* --------------------------------------------- the frame specifications

\* the configuration of the spec's scenario: source 1 left, source 2 right
TwoHalves == [s \in Sources |-> IF s = 1 THEN LeftHalf ELSE RightHalf]

\* the recorder before __main__ has built it
NoRecorder ==
    /\ output_path = FALSE /\ output_file = FALSE /\ video_writer = "unset"
    /\ record_flag = FALSE /\ start_time = Unset /\ end_time = Unset
    /\ curr_time = Unset /\ shutdown = FALSE /\ pc = "spin" /\ busy = 0
    /\ depth = 1 /\ exit = "running"
    /\ opens = 0 /\ releases = 0 /\ canvases = 0 /\ cycles = 0 /\ arms = 0
    /\ calls = 0 /\ srv = "none" /\ interrupts = 0 /\ clean = FALSE /\ hit = FALSE
    /\ stopped = NoStop /\ work_end = Unset

InitBuffers ==
    /\ frames = [s \in Sources |-> <<>>]
    /\ now = 0
    /\ canvas = zeros
    /\ hist = [s \in Sources |-> <<>>]
    /\ msgs = 0
    /\ last = NoOp
    /\ qmax = [s \in Sources |-> 0]
    /\ mono = [s \in Sources |-> TRUE]
    /\ gl = NoQuery
    /\ cb = NoCallback

\* one VideoFrames object: its subscriber callback and arbitrary queries
InitFrames ==
    /\ InitBuffers
    /\ frame_wrappers = TwoHalves
    /\ NoRecorder

NextFrames ==
    \/ \E ok \in BOOLEAN : msgs < MaxMsgs /\ callback_image(1, ok)
    \/ \E t \in 0..MaxStamp, rm \in BOOLEAN : get_latest(1, t, rm)
    \/ Tick(MaxStamp)

SpecFrames == InitFrames /\ [][NextFrames]_vars

\* the sources of one recorder, in every configuration of target rectangles,
\* sampled by the compose pass of a tick at sample times that never decrease
\* (curr_time only grows, and a new recording starts at the wall clock)
InitCompose ==
    /\ InitBuffers
    /\ frame_wrappers \in [Sources -> Regions]
    /\ NoRecorder

NextCompose ==
    \/ \E s \in Sources, ok \in BOOLEAN : msgs < MaxComposeMsgs /\ callback_image(s, ok)
    \/ \E t \in 0..MaxComposeStamp : (\A s \in Sources : t >= qmax[s]) /\ ComposeAt(t)
    \/ Tick(MaxComposeStamp)

SpecCompose == InitCompose /\ [][NextCompose]_vars

\* ------------------------------------- callback_image against get_latest
\* The subscriber callback runs in rospy's callback thread, get_latest in the
\* main thread; the interpreter may switch threads between any two of the
\* steps below.  frames[1] is the content of the list object self.frames
\* refers to; cb.ref tells whether the list object the callback has loaded is
\* still that one ("current") or has been replaced by line 47 ("replaced").

\* callback_image, line 38, first step: self.frames is loaded (the reference
\* to the list object) after the message converted
CbLoad(ok) ==
    /\ cb.pc = "idle" /\ msgs < MaxRaceMsgs
    /\ msgs' = msgs + 1
    /\ cb' = IF ok THEN [pc |-> "loaded", ref |-> "current"] ELSE cb
    /\ UNCHANGED <<frames, frame_wrappers, now, canvas, hist, last, qmax, mono, gl>>
    /\ UNCHANGED <<rvars, hvars>>

\* callback_image, line 38, second step: time.time() and .append on the
\* loaded list object; a list that self.frames no longer refers to is garbage
CbAppend ==
    /\ cb.pc = "loaded"
    /\ frames' = IF cb.ref = "current"
                 THEN [frames EXCEPT ![1] = Append(@, <<now, msgs>>)]
                 ELSE frames
    /\ hist' = [hist EXCEPT ![1] = Append(@, <<now, msgs>>)]
    /\ last' = [NoOp EXCEPT !.op = "append", !.src = 1]
    /\ cb' = NoCallback
    /\ UNCHANGED <<frame_wrappers, now, canvas, msgs, qmax, mono, gl>>
    /\ UNCHANGED <<rvars, hvars>>

\* get_latest, lines 41-45: the filter, the emptiness test and f = fs[-1]
GlFilter(at_time, remove_older) ==
    /\ gl.pc = "idle"
    /\ at_time >= qmax[1]
    /\ LET f == fs(frames[1], at_time)
       IN  IF Len(f) = 0 \/ ~remove_older
           THEN /\ last' = [NoOp EXCEPT !.op = "get", !.src = 1, !.t = at_time,
                                        !.rm = remove_older,
                                        !.ret = get_latest_ret(frames[1], at_time)]
                /\ gl' = gl
           ELSE /\ gl' = [pc |-> "filtered", t |-> at_time, rm |-> remove_older,
                          n |-> Len(f), f |-> f[Len(f)][2], new |-> <<>>]
                /\ last' = last
    /\ qmax' = [qmax EXCEPT ![1] = at_time]
    /\ UNCHANGED <<frames, frame_wrappers, now, canvas, hist, msgs, mono, cb>>
    /\ UNCHANGED <<rvars, hvars>>

\* get_latest, line 47, right-hand side: self.frames[len(fs) - 1:] builds a
\* new list object from the list self.frames refers to now
GlSlice ==
    /\ gl.pc = "filtered"
    /\ gl' = [gl EXCEPT !.pc = "sliced",
                        !.new = SubSeq(frames[1], gl.n, Len(frames[1]))]
    /\ UNCHANGED <<frames, frame_wrappers, now, canvas, hist, msgs, last, qmax, mono, cb>>
    /\ UNCHANGED <<rvars, hvars>>

\* get_latest, lines 47 and 49: self.frames is bound to the new list object,
\* and f[1] is returned
GlStore ==
    /\ gl.pc = "sliced"
    /\ frames' = [frames EXCEPT ![1] = gl.new]
    /\ cb' = IF cb.pc = "loaded" THEN [cb EXCEPT !.ref = "replaced"] ELSE cb
    /\ last' = [NoOp EXCEPT !.op = "get", !.src = 1, !.t = gl.t, !.rm = gl.rm,
                            !.ret = gl.f]
    /\ gl' = NoQuery
    /\ UNCHANGED <<frame_wrappers, now, canvas, hist, msgs, qmax, mono>>
    /\ UNCHANGED <<rvars, hvars>>

InitRace ==
    /\ InitBuffers
    /\ frame_wrappers = TwoHalves
    /\ NoRecorder

NextRace ==
    \/ \E ok \in BOOLEAN : CbLoad(ok)
    \/ CbAppend
    \/ \E t \in 0..MaxRaceStamp, rm \in BOOLEAN : GlFilter(t, rm)
    \/ GlSlice
    \/ GlStore
    \/ Tick(MaxRaceStamp)

SpecRace == InitRace /\ [][NextRace]_vars

\* ---------------------------------------------------------- VideoRecorder
\* The main thread runs record_spin and start_record; its steps take no time
\* except where it sleeps (busy > 0).  In this specification no image
\* arrives, so every canvas is black: the buffers and the compose pass are
\* the subject of SpecFrames and SpecCompose.

\* terminate() reads self.output_file for its log line before it assigns
\* anything: without that attribute it raises AttributeError
terminate_raises == ~output_file

\* a terminate() that forgets to clear record_flag
terminate_keeps_flag ==
    /\ end_time' = now
    /\ record_flag' = record_flag

\* terminate() past its log line: end_time = time.time(); record_flag = False
terminate ==
    /\ end_time' = now
    /\ record_flag' = FALSE

\* an exception nobody catches ends the process
Crash(how) ==
    /\ pc' = "done"
    /\ exit' = how
    /\ busy' = 0

\* the tick loop is recording to an open file sink
Recording ==
    /\ pc \in {"cond", "body", "sleep", "wait", "adv"}
    /\ record_flag /\ canvases >= 1
    /\ video_writer = "open"

\* record_spin, lines 88-94: leave the waiting loop on shutdown or once
\* record_flag is set, else sleep out the 1 Hz rate and look again
SpinWait ==
    /\ pc = "spin" /\ busy = 0
    /\ IF ~shutdown /\ ~record_flag
       THEN /\ \E d \in 1..MaxRateSleep : busy' = d
            /\ pc' = pc
       ELSE /\ pc' = "open"
            /\ busy' = busy
    /\ UNCHANGED <<fvars, hvars>>
    /\ UNCHANGED <<output_path, output_file, video_writer, record_flag, start_time,
                   end_time, curr_time, shutdown, depth, exit>>

\* record_spin, lines 96-101: open the file sink if a path is configured
OpenWriter ==
    /\ pc = "open"
    /\ IF output_path
       THEN /\ output_file' = TRUE
            /\ video_writer' = "open"
            /\ opens' = opens + 1
       ELSE /\ video_writer' = "None"
            /\ UNCHANGED <<output_file, opens>>
    /\ pc' = "init"
    /\ UNCHANGED fvars
    /\ UNCHANGED <<output_path, record_flag, start_time, end_time, curr_time,
                   shutdown, busy, depth, exit>>
    /\ UNCHANGED <<releases, canvases, cycles, arms, calls, srv, interrupts, clean, hit,
                   ovars>>

\* start_record, lines 107-109
RecInit ==
    /\ pc = "init"
    /\ start_time' = now
    /\ curr_time' = now
    /\ end_time' = Unset
    /\ pc' = "cond"
    /\ canvases' = 0
    /\ clean' = ~shutdown
    /\ UNCHANGED fvars
    /\ UNCHANGED <<output_path, output_file, video_writer, record_flag, shutdown,
                   busy, depth, exit>>
    /\ UNCHANGED <<opens, releases, cycles, arms, calls, srv, interrupts, hit, ovars>>

\* the loop condition of line 110
loop_condition == (end_time < 0 \/ curr_time <= end_time) /\ record_flag

RecCond ==
    /\ pc = "cond"
    /\ pc' = IF loop_condition THEN "body" ELSE "release"
    /\ stopped' = IF loop_condition /\ stopped.on
                  THEN [stopped EXCEPT !.resumed = TRUE] ELSE stopped
    /\ UNCHANGED fvars
    /\ UNCHANGED <<opens, releases, canvases, cycles, arms, calls, srv, interrupts,
                   clean, hit, work_end>>
    /\ UNCHANGED <<output_path, output_file, video_writer, record_flag, start_time,
                   end_time, curr_time, shutdown, busy, depth, exit>>

\* lines 112-131: compose the canvas at curr_time, write and publish it, then
\* rospy.sleep(0.01); the work and the sleep take c + ShortSleep time units.
\* A slice assignment that numpy refuses raises ValueError out of the loop.
RecBody ==
    /\ pc = "body"
    /\ ComposePass(curr_time)
    /\ IF last'.op = "compose_error"
       THEN /\ Crash("error")
            /\ UNCHANGED <<canvases, cycles, clean, work_end>>
       ELSE /\ canvases' = canvases + 1
            /\ cycles' = IF canvases = 0 THEN cycles + 1 ELSE cycles
            /\ \E c \in 0..MaxWork :
                   /\ busy' = c + ShortSleep
                   /\ work_end' = now + c
                   /\ clean' = (clean /\ c + ShortSleep < Interval)
            /\ pc' = "sleep"
            /\ exit' = exit
    /\ UNCHANGED <<output_path, output_file, video_writer, record_flag, start_time,
                   end_time, curr_time, shutdown, depth>>
    /\ UNCHANGED <<opens, releases, arms, calls, srv, interrupts, hit, stopped>>

\* lines 133-134, once the sleep of line 131 is over
RecShutdownCheck ==
    /\ pc = "sleep" /\ busy = 0
    /\ IF shutdown /\ end_time < 0
       THEN IF terminate_raises
            THEN /\ Crash("error")
                 /\ UNCHANGED <<end_time, record_flag>>
            ELSE /\ terminate
                 /\ pc' = "wait"
                 /\ UNCHANGED <<busy, exit>>
       ELSE /\ pc' = "wait"
            /\ UNCHANGED <<end_time, record_flag, busy, exit>>
    /\ UNCHANGED <<fvars, hvars>>
    /\ UNCHANGED <<output_path, output_file, video_writer, start_time, curr_time,
                   shutdown, depth>>

\* a wait that lasts until two intervals have passed
must_wait_two == curr_time + 2 * Interval > now

\* a comparison the wrong way round: sleep when late, go on when early
must_wait_inverted == curr_time + Interval < now

\* the condition of line 136
must_wait == curr_time + Interval > now

\* lines 136-137: while curr_time + interval > time.time(): rospy.sleep(interval)
RecWait ==
    /\ pc = "wait" /\ busy = 0
    /\ IF must_wait
       THEN /\ busy' = Interval
            /\ pc' = pc
       ELSE /\ pc' = "adv"
            /\ busy' = busy
    /\ UNCHANGED <<fvars, hvars>>
    /\ UNCHANGED <<output_path, output_file, video_writer, record_flag, start_time,
                   end_time, curr_time, shutdown, depth, exit>>

\* line 139
RecAdvance ==
    /\ pc = "adv"
    /\ curr_time' = curr_time + Interval
    /\ pc' = "cond"
    /\ work_end' = Unset
    /\ UNCHANGED fvars
    /\ UNCHANGED <<opens, releases, canvases, cycles, arms, calls, srv, interrupts,
                   clean, hit, stopped>>
    /\ UNCHANGED <<output_path, output_file, video_writer, record_flag, start_time,
                   end_time, shutdown, busy, depth, exit>>

\* a loop exit that forgets to release the writer
RecRelease_leak ==
    /\ pc = "release"
    /\ UNCHANGED <<video_writer, releases>>
    /\ IF depth < RecursionLimit
       THEN /\ depth' = depth + 1
            /\ pc' = "spin"
            /\ UNCHANGED <<busy, exit>>
       ELSE /\ Crash("error")
            /\ depth' = depth
    /\ UNCHANGED fvars
    /\ UNCHANGED <<output_path, output_file, record_flag, start_time, end_time,
                   curr_time, shutdown>>
    /\ stopped' = NoStop
    /\ UNCHANGED <<opens, canvases, cycles, arms, calls, srv, interrupts, clean, hit,
                   work_end>>

\* lines 144-145, then line 104: release the writer and call record_spin
\* again, which the interpreter refuses (RuntimeError) at its recursion limit
RecRelease ==
    /\ pc = "release"
    /\ IF video_writer = "open"
       THEN /\ video_writer' = "released"
            /\ releases' = releases + 1
       ELSE UNCHANGED <<video_writer, releases>>
    /\ IF depth < RecursionLimit
       THEN /\ depth' = depth + 1
            /\ pc' = "spin"
            /\ UNCHANGED <<busy, exit>>
       ELSE /\ Crash("error")
            /\ depth' = depth
    /\ UNCHANGED fvars
    /\ UNCHANGED <<output_path, output_file, record_flag, start_time, end_time,
                   curr_time, shutdown>>
    /\ stopped' = NoStop
    /\ UNCHANGED <<opens, canvases, cycles, arms, calls, srv, interrupts, clean, hit,
                   work_end>>

\* __main__, line 211, after the KeyboardInterrupt of line 208
MainTerminate ==
    /\ pc = "final"
    /\ IF terminate_raises
       THEN /\ Crash("error")
            /\ UNCHANGED <<end_time, record_flag>>
       ELSE /\ terminate
            /\ pc' = "done"
            /\ exit' = "terminated"
            /\ busy' = busy
    /\ UNCHANGED <<fvars, hvars>>
    /\ UNCHANGED <<output_path, output_file, video_writer, start_time, curr_time,
                   shutdown, depth>>

\* time passes while the main thread sleeps
Elapse ==
    /\ busy > 0 /\ now < MaxTime
    /\ now' = now + 1
    /\ busy' = busy - 1
    /\ UNCHANGED <<frames, frame_wrappers, canvas, hist, msgs, last, qmax, mono, tvars>>
    /\ UNCHANGED <<output_path, output_file, video_writer, record_flag, start_time,
                   end_time, curr_time, shutdown, pc, depth, exit>>
    /\ UNCHANGED hvars

\* a ~start that restarts the recording clock when already recording
start_srv_cb_restart ==
    /\ exit = "running" /\ ~shutdown /\ calls < MaxCalls
    /\ calls' = calls + 1
    /\ IF record_flag
       THEN /\ srv' = "start_noop"
            /\ start_time' = now
            /\ UNCHANGED <<record_flag, arms, clean>>
       ELSE /\ record_flag' = TRUE
            /\ srv' = "start_set"
            /\ arms' = arms + 1
            /\ clean' = FALSE
            /\ start_time' = start_time
    /\ UNCHANGED fvars
    /\ UNCHANGED <<output_path, output_file, video_writer, end_time,
                   curr_time, shutdown, pc, busy, depth, exit>>
    /\ UNCHANGED <<opens, releases, canvases, cycles, interrupts, hit, ovars>>

\* the ~start service
start_srv_cb ==
    /\ exit = "running" /\ ~shutdown /\ calls < MaxCalls
    /\ calls' = calls + 1
    /\ IF record_flag
       THEN /\ srv' = "start_noop"
            /\ UNCHANGED <<record_flag, arms, clean>>
       ELSE /\ record_flag' = TRUE
            /\ srv' = "start_set"
            /\ arms' = arms + 1
            /\ clean' = FALSE
    /\ UNCHANGED fvars
    /\ UNCHANGED <<output_path, output_file, video_writer, start_time, end_time,
                   curr_time, shutdown, pc, busy, depth, exit>>
    /\ UNCHANGED <<opens, releases, canvases, cycles, interrupts, hit, ovars>>

\* what an accepted ~stop leaves in the history: while a sink is open, from
\* line 98 to the end of the tick loop, the time of the stop and whether the
\* tick loop had begun (line 109 was passed)
accepted_stop ==
    IF video_writer = "open" /\ pc \in {"init", "cond", "body", "sleep", "wait", "adv"}
    THEN [on |-> TRUE, at |-> now, inloop |-> (pc # "init"), resumed |-> FALSE]
    ELSE stopped

\* a ~stop that calls terminate() without looking at record_flag
stop_srv_cb_always ==
    /\ exit = "running" /\ ~shutdown /\ calls < MaxCalls
    /\ calls' = calls + 1
    /\ IF terminate_raises
       THEN /\ srv' = "stop_error"
            /\ UNCHANGED <<end_time, record_flag>>
       ELSE /\ terminate
            /\ srv' = IF record_flag THEN "stop_done" ELSE "stop_noop"
    /\ stopped' = IF srv' = "stop_done" THEN accepted_stop ELSE stopped
    /\ UNCHANGED fvars
    /\ UNCHANGED <<output_path, output_file, video_writer, start_time, curr_time,
                   shutdown, pc, busy, depth, exit>>
    /\ UNCHANGED <<opens, releases, canvases, cycles, arms, interrupts, clean, hit,
                   work_end>>

\* a ~stop that also releases the writer, from the service thread
stop_srv_cb_releases ==
    /\ exit = "running" /\ ~shutdown /\ calls < MaxCalls
    /\ calls' = calls + 1
    /\ IF record_flag /\ ~terminate_raises
       THEN /\ terminate
            /\ srv' = "stop_done"
            /\ video_writer' = IF video_writer = "open" THEN "released" ELSE video_writer
            /\ releases' = IF video_writer = "open" THEN releases + 1 ELSE releases
       ELSE /\ srv' = IF record_flag THEN "stop_error" ELSE "stop_noop"
            /\ UNCHANGED <<end_time, record_flag, video_writer, releases>>
    /\ stopped' = IF srv' = "stop_done" THEN accepted_stop ELSE stopped
    /\ UNCHANGED fvars
    /\ UNCHANGED <<output_path, output_file, start_time, curr_time,
                   shutdown, pc, busy, depth, exit>>
    /\ UNCHANGED <<opens, canvases, cycles, arms, interrupts, clean, hit, work_end>>

\* the ~stop service; an exception of terminate() reaches the caller as a
\* service error
stop_srv_cb ==
    /\ exit = "running" /\ ~shutdown /\ calls < MaxCalls
    /\ calls' = calls + 1
    /\ IF record_flag
       THEN IF terminate_raises
            THEN /\ srv' = "stop_error"
                 /\ UNCHANGED <<end_time, record_flag>>
            ELSE /\ terminate
                 /\ srv' = "stop_done"
       ELSE /\ srv' = "stop_noop"
            /\ UNCHANGED <<end_time, record_flag>>
    /\ stopped' = IF srv' = "stop_done" THEN accepted_stop ELSE stopped
    /\ UNCHANGED fvars
    /\ UNCHANGED <<output_path, output_file, video_writer, start_time, curr_time,
                   shutdown, pc, busy, depth, exit>>
    /\ UNCHANGED <<opens, releases, canvases, cycles, arms, interrupts, clean, hit,
                   work_end>>

\* rospy.signal_shutdown, from another thread
Shutdown ==
    /\ exit = "running" /\ ~shutdown
    /\ shutdown' = TRUE
    /\ hit' = (hit \/ Recording)
    /\ clean' = FALSE
    /\ UNCHANGED fvars
    /\ UNCHANGED <<output_path, output_file, video_writer, record_flag, start_time,
                   end_time, curr_time, pc, busy, depth, exit>>
    /\ UNCHANGED <<opens, releases, canvases, cycles, arms, calls, srv, interrupts,
                   ovars>>

\* SIGINT: the node is initialised with disable_signals=True, so the main
\* thread gets a KeyboardInterrupt wherever it stands.  In record_spin's
\* waiting loop it is caught by line 93 (sys.exit), in the body of the tick
\* loop by line 140 (terminate, continue); anywhere else it travels up to
\* line 208 and the process goes on to line 211
Interrupt ==
    /\ exit = "running" /\ interrupts < MaxInterrupts
    /\ interrupts' = interrupts + 1
    /\ hit' = (hit \/ Recording)
    /\ clean' = FALSE
    /\ IF pc = "spin"
       THEN /\ Crash("sysexit")
            /\ UNCHANGED <<end_time, record_flag>>
       ELSE IF pc \in {"body", "sleep", "wait", "adv"}
       THEN IF terminate_raises
            THEN /\ Crash("error")
                 /\ UNCHANGED <<end_time, record_flag>>
            ELSE /\ terminate
                 /\ pc' = "cond"
                 /\ busy' = 0
                 /\ exit' = exit
       ELSE IF pc = "final"
       THEN /\ Crash("interrupt")
            /\ UNCHANGED <<end_time, record_flag>>
       ELSE /\ pc' = "final"
            /\ busy' = 0
            /\ UNCHANGED <<end_time, record_flag, exit>>
    /\ UNCHANGED fvars
    /\ UNCHANGED <<output_path, output_file, video_writer, start_time, curr_time,
                   shutdown, depth>>
    /\ UNCHANGED <<opens, releases, canvases, cycles, arms, calls, srv, ovars>>

\* VideoRecorder.__init__ and __main__ up to line 207, in every configuration
\* of ~output_path and ~initial_start
Init ==
    /\ InitBuffers
    /\ frame_wrappers = TwoHalves
    /\ output_path \in BOOLEAN
    /\ record_flag \in BOOLEAN
    /\ arms = IF record_flag THEN 1 ELSE 0
    /\ output_file = FALSE /\ video_writer = "unset"
    /\ start_time = Unset /\ end_time = Unset /\ curr_time = Unset
    /\ shutdown = FALSE /\ pc = "spin" /\ busy = 0 /\ depth = 1 /\ exit = "running"
    /\ opens = 0 /\ releases = 0 /\ canvases = 0 /\ cycles = 0
    /\ calls = 0 /\ srv = "none" /\ interrupts = 0 /\ clean = FALSE /\ hit = FALSE
    /\ stopped = NoStop /\ work_end = Unset

Next ==
    \/ SpinWait
    \/ OpenWriter
    \/ RecInit
    \/ RecCond
    \/ RecBody
    \/ RecShutdownCheck
    \/ RecWait
    \/ RecAdvance
    \/ RecRelease
    \/ MainTerminate
    \/ Elapse
    \/ start_srv_cb
    \/ stop_srv_cb
    \/ Shutdown
    \/ Interrupt

Spec == Init /\ [][Next]_vars

\* ===================================================== claims: VideoFrames

\* the frame of history h with the greatest timestamp <= t, the last appended
\* among equal timestamps; None when h has no frame at or before t
LatestIn(h, t) ==
    IF \A i \in DOMAIN h : h[i][1] > t THEN None
    ELSE LET i == CHOOSE k \in DOMAIN h :
                     /\ h[k][1] <= t
                     /\ \A j \in DOMAIN h :
                            h[j][1] <= t =>
                                \/ h[j][1] < h[k][1]
                                \/ (h[j][1] = h[k][1] /\ j <= k)
         IN  h[i][2]

\* C1: after appends at non-decreasing timestamps and queries at non-decreasing
\* times, get_latest(t) returns the appended frame with the greatest timestamp
\* <= t (the last appended among equals), and None exactly when there is none.
C1_LatestAtOrBefore ==
    (last.op = "get" /\ mono[last.src])
        => last.ret = LatestIn(hist[last.src], last.t)

\* C1 witness: a query served from a buffer that earlier queries have trimmed,
\* with two frames of equal timestamp at or before the query time
C1_Witness ==
    /\ last.op = "get" /\ mono[last.src] /\ last.ret # None
    /\ Len(frames[last.src]) < Len(hist[last.src])
    /\ \E i, j \in DOMAIN hist[last.src] :
           /\ i < j
           /\ hist[last.src][i][1] = hist[last.src][j][1]
           /\ hist[last.src][j][2] = last.ret

\* a trimming get_latest returned a frame and the next operation on the same
\* source is a get_latest at the same or a later time
RepeatedQuery ==
    /\ last.op = "get" /\ last.pget
    /\ last.prm /\ last.pret # None
    /\ last.t >= last.pt

\* the retained frames whose timestamp lies in (pt, t]
NewerRetained ==
    {i \in DOMAIN frames[last.src] :
        /\ frames[last.src][i][1] > last.pt
        /\ frames[last.src][i][1] <= last.t}

\* C2 as stated: after a trimming get_latest(t) returned F, a get_latest(t')
\* with t' >= t and no append in between returns F again.
C2_ReturnsSameFrame == RepeatedQuery => last.ret = last.pret

\* C2 amended: such a query never returns None; it returns F again unless the
\* buffer already holds a frame stamped in (t, t'], and then it returns the
\* latest of those.
C2_RetainedOrNewer ==
    RepeatedQuery =>
        /\ last.ret # None
        /\ NewerRetained = {} => last.ret = last.pret
        /\ NewerRetained # {} =>
               \E i \in NewerRetained :
                   /\ \A j \in NewerRetained : j <= i
                   /\ last.ret = frames[last.src][i][2]

\* C2 witness: the second query comes at a later time and returns F again
C2_Witness ==
    /\ RepeatedQuery /\ last.t > last.pt
    /\ NewerRetained = {}
    /\ last.ret = last.pret
    /\ Len(hist[last.src]) >= 2

\* C10: after a trimming get_latest that returns a frame, the returned frame is
\* the head of the buffer, every retained frame has a timestamp >= its
\* timestamp, and every frame behind the head is newer than the query time,
\* so the head is the only retained frame that has been served.
C10_ReturnedIsHead ==
    (last.op = "get" /\ last.rm /\ last.ret # None) =>
        LET b == frames[last.src]
        IN  /\ Len(b) >= 1
            /\ b[1][2] = last.ret
            /\ \A i \in DOMAIN b : b[i][1] >= b[1][1]
            /\ \A i \in DOMAIN b : i > 1 => b[i][1] > last.t

\* C10 witness: the trim discarded an older frame and kept a newer one behind
\* the returned head
C10_Witness ==
    /\ last.op = "get" /\ last.rm /\ last.ret # None
    /\ Len(frames[last.src]) >= 2
    /\ Len(frames[last.src]) < Len(hist[last.src])

\* buffer b is a contiguous suffix of history h, in arrival order
IsSuffix(b, h) ==
    /\ Len(b) <= Len(h)
    /\ b = SubSeq(h, Len(h) - Len(b) + 1, Len(h))

\* C11: under every interleaving of the callback's append with the steps of
\* get_latest the buffer is a contiguous suffix of the append history, and no
\* frame newer than the last returned frame is lost: once both calls are
\* over, every appended frame stamped after the last query time is retained.
C11_AppendSafe ==
    (gl.pc = "idle" /\ cb.pc = "idle") =>
        /\ IsSuffix(frames[1], hist[1])
        /\ \A i \in DOMAIN hist[1] :
               hist[1][i][1] > qmax[1] =>
                   \E j \in DOMAIN frames[1] : frames[1][j] = hist[1][i]

\* ========================================================= claims: compose

\* pixel p lies in the target rectangle of wrapper w
InRect(p, w) ==
    /\ p[1] \in w.target_x .. (w.target_x + w.target_w - 1)
    /\ p[2] \in w.target_y .. (w.target_y + w.target_h - 1)

\* the sources that have a frame at or before t
HasFrame(s, t) == LatestIn(hist[s], t) # None

Composed == last.op = "compose" /\ \A s \in Sources : mono[s]

\* C7 as stated: in every composed canvas the rectangle of a source without a
\* frame at or before the sample time is entirely zero, and the rectangle of
\* every other source holds that source's latest frame.
C7_EveryRectangle ==
    Composed =>
        \A s \in Sources : \A p \in Pixels :
            InRect(p, frame_wrappers[s]) =>
                canvas[p] = IF HasFrame(s, last.t)
                            THEN LatestIn(hist[s], last.t) ELSE 0

\* C7 amended: each pixel holds the latest frame of the last configured source
\* whose rectangle covers it and that has a frame at or before the sample
\* time, and is zero when no such source exists; rectangles that no other
\* painted rectangle overlaps are as the claim says.
C7_LastCoveringSource ==
    Composed =>
        \A p \in Pixels :
            LET cover == {s \in Sources :
                             InRect(p, frame_wrappers[s]) /\ HasFrame(s, last.t)}
            IN  IF cover = {} THEN canvas[p] = 0
                ELSE \E s \in cover :
                         /\ \A r \in cover : r <= s
                         /\ canvas[p] = LatestIn(hist[s], last.t)

\* C7 witness: the spec's scenario, source 1 on the left half with a frame
\* older than the sample time, source 2 on the right half without any
C7_Witness ==
    /\ Composed
    /\ frame_wrappers = TwoHalves
    /\ hist[2] = <<>> /\ Len(hist[1]) >= 1
    /\ hist[1][1][1] < last.t
    /\ \A p \in Pixels :
           canvas[p] = IF InRect(p, LeftHalf) THEN LatestIn(hist[1], last.t) ELSE 0

\* ======================================================= claims: recorder

\* a step that serves a ~start request / a ~stop request
StartServed == calls' = calls + 1 /\ srv' \in {"start_noop", "start_set"}
StopServed == calls' = calls + 1 /\ srv' \in {"stop_noop", "stop_done", "stop_error"}

\* C3: a start request that arrives while record_flag is set (a second start
\* in a row) changes nothing: record_flag, start_time and the writer stay as
\* they are and no file sink is opened; and as long as rospy is not shut down
\* no more sinks have been opened than record_flag has been set.
C3_SecondStartNoop ==
    /\ [][(StartServed /\ record_flag) =>
            /\ srv' = "start_noop"
            /\ record_flag' = record_flag
            /\ start_time' = start_time
            /\ video_writer' = video_writer
            /\ opens' = opens]_vars
    /\ [](~shutdown => opens <= arms)

\* C3 witness: a second start request in a row was served during a recording
\* into the one sink opened so far
C3_Witness ==
    /\ srv = "start_noop" /\ calls = 2 /\ arms = 1
    /\ record_flag /\ Recording
    /\ opens = 1 /\ start_time >= 0

\* C4: of two stop requests in a row during a recording into a file sink, the
\* first assigns end_time once and clears record_flag, and the second, which
\* arrives when already stopped, changes neither end_time nor record_flag and
\* closes nothing; no sink is ever released twice.
C4_SecondStopNoop ==
    /\ [][(StopServed /\ record_flag /\ video_writer = "open") =>
            /\ srv' = "stop_done"
            /\ end_time' = now
            /\ record_flag' = FALSE
            /\ releases' = releases]_vars
    /\ [][(StopServed /\ ~record_flag) =>
            /\ srv' = "stop_noop"
            /\ end_time' = end_time
            /\ record_flag' = record_flag
            /\ video_writer' = video_writer
            /\ releases' = releases]_vars
    /\ [][(StopServed /\ srv = "stop_done") => srv' = "stop_noop"]_vars
    /\ [](releases <= opens)

\* C4 witness: the second of two stop requests was served while the tick loop
\* of the stopped recording had not yet released the sink
C4_Witness ==
    /\ srv = "stop_noop" /\ calls = 2
    /\ ~record_flag /\ end_time >= 0
    /\ pc \in {"cond", "body", "sleep", "wait", "adv", "release"}
    /\ video_writer = "open" /\ releases = 0

\* C5: every start or stop request returns success to its caller.
C5_ServicesSucceed == srv # "stop_error"

\* C6: when shutdown or an interrupt comes while the tick loop is recording,
\* the file sink open at that moment is released before the process ends.
C6_SinkReleasedAtExit == (pc = "done" /\ hit) => video_writer # "open"

\* the loop of a recording has ended, the recording was stopped by one stop
\* request a whole number n >= 1 of tick intervals after it started, and no
\* tick overran, no start re-armed it and no shutdown or interrupt came
StoppedAfterWholeTicks ==
    /\ pc = "release" /\ clean
    /\ end_time > start_time
    /\ (end_time - start_time) % Interval = 0

\* C8 as stated: such a recording has produced exactly fps x duration
\* canvases, and the time its ticks took is within one interval of its
\* duration.
C8_ExactCanvasCount ==
    StoppedAfterWholeTicks =>
        /\ canvases = (end_time - start_time) \div Interval
        /\ now - end_time <= Interval

\* C8 amended: it has produced fps x duration canvases or one more (the tick
\* that has begun when the stop arrives is completed), and its loop ends less
\* than two intervals after the stop.
C8_CountWithinOne ==
    StoppedAfterWholeTicks =>
        /\ canvases \in {(end_time - start_time) \div Interval,
                         (end_time - start_time) \div Interval + 1}
        /\ now - end_time < 2 * Interval

\* C8 witness: stopped two intervals after its start, two canvases
C8_Witness ==
    /\ StoppedAfterWholeTicks
    /\ end_time - start_time = 2 * Interval
    /\ canvases = 2
    /\ now - end_time <= Interval

\* C9 as stated: a process performs at most one recording cycle (looked at
\* in the runs without shutdown or interrupt, where only a stop request ends
\* a recording).
C9_SingleCycle == (~shutdown /\ interrupts = 0) => cycles <= 1

\* C9 amended: the tick loop runs at most once for every time record_flag is
\* set (by initial_start or by an accepted start request), so a start request
\* after a stop re-arms the recorder; a new sink is opened only after the
\* previous one has been released.
C9_OneCyclePerStart ==
    /\ cycles <= arms
    /\ opens = releases + (IF video_writer = "open" THEN 1 ELSE 0)

\* C9 witness: a second recording, into a second sink, after the first was
\* stopped and its sink released
C9_Witness ==
    /\ cycles = 2 /\ arms = 2
    /\ opens = 2 /\ releases = 1
    /\ Recording

\* a step of the tick loop that composes a canvas and hands it to the writer
CanvasWritten == canvases' = canvases + 1

\* C12: under every interleaving of the services, shutdown, SIGINT and the
\* tick loop, every canvas is written to a writer that is open (or to none,
\* without a file sink): never to a released one, and the writer written to is
\* the one opened last, which the step does not release.
C12_WritesToOpenSink ==
    [][CanvasWritten =>
           /\ video_writer \in {"open", "None"}
           /\ video_writer = "open" => opens = releases + 1
           /\ video_writer' = video_writer
           /\ releases' = releases]_vars

\* C12 witness: a canvas of the second recording has been written to the second
\* writer, after the first writer was released
C12_Witness ==
    /\ pc = "sleep" /\ canvases >= 1
    /\ video_writer = "open"
    /\ opens = 2 /\ releases = 1

\* C13: after a stop accepted during the tick loop, the loop begins no further
\* iteration: it completes at most the one in progress and exits.
C13_StopObservedInOneTick ==
    (stopped.on /\ stopped.inloop) => ~stopped.resumed

\* C14: a stop request that arrives while record_flag is set leaves
\* record_flag false and end_time at the stop time, in every configuration
\* and wherever the main thread stands.
C14_StopAlwaysStops ==
    [][(StopServed /\ record_flag) =>
           /\ record_flag' = FALSE
           /\ end_time' = now]_vars

\* C15: whenever record_spin constructs a video writer, record_flag is true.
C15_OpenOnlyWhenRecording ==
    [][(opens' = opens + 1) => record_flag]_vars

\* C16: at most one file sink is open at any time, no sink is released twice,
\* none is open while record_spin waits or is about to open one, and the step
\* that leaves a tick loop ended by a stop request or by shutdown releases the
\* sink that is open, exactly once.
C16_OneSinkReleasedOnce ==
    /\ [](opens - releases \in {0, 1})
    /\ []((video_writer = "open") <=> (opens = releases + 1))
    /\ [](pc \in {"spin", "open"} => video_writer # "open")
    /\ [][(pc = "release" /\ pc' # "release" /\ interrupts' = interrupts) =>
             /\ video_writer' # "open"
             /\ releases' = releases + (IF video_writer = "open" THEN 1 ELSE 0)]_vars

\* C16 witness: shutdown came during a recording, the tick loop has ended and
\* the one sink opened has been released
C16_Witness ==
    /\ shutdown /\ hit /\ interrupts = 0
    /\ opens = 1 /\ releases = 1
    /\ video_writer = "released"

\* C17: the canvas number k (k = 0, 1, ...) of a recording is sampled at
\* start_time + k * interval.
C17_SampleTimes ==
    [][CanvasWritten => curr_time = start_time + canvases * Interval]_vars

\* the work of the tick that is about to advance ended when the wall clock
\* had reached curr_time + interval
Overran == pc = "adv" /\ work_end >= curr_time + Interval

\* C18 as stated: a tick that overran sleeps not at all before the next tick
\* (looked at in the runs without SIGINT).
C18_NoSleepAtAll == (Overran /\ interrupts = 0) => now = work_end

\* C18 amended: a tick that overran skips the interval wait of lines 136-137;
\* the only sleep of that iteration is the rospy.sleep(0.01) of line 131.
C18_OnlyShortSleep == Overran => now = work_end + ShortSleep

\* C18 witness: the second tick or a later one overran, and the loop is about
\* to advance after the short sleep alone
C18_Witness ==
    /\ Overran /\ canvases >= 2
    /\ now = work_end + ShortSleep
    /\ record_flag

\* C19: once shutdown is signalled and the session is not (or no longer)
\* recording, no further file sink is opened, no further record_spin is
\* entered, and the process does not end in an error.
C19_TerminatesAfterShutdown ==
    [][(shutdown /\ ~record_flag) =>
           /\ opens' = opens
           /\ depth' = depth
           /\ exit' # "error"]_vars

\* C20: a stop accepted while a sink is open stays in force until that sink
\* is released, whatever start request follows: if record_flag is set again,
\* end_time still holds a value at or after the time of the stop, so that
\* curr_time passes it and the loop ends.
C20_StopNotCancelled ==
    stopped.on => (~record_flag \/ end_time >= stopped.at)

====
